---- MODULE Spec2Model ----
(***************************************************************************)
(* Image Analysis Gateway: the Flask application (backend/app.py) and the  *)
(* Netlify upload function (netlify/functions/upload-image.py) in front of *)
(* a shared store with two tables, images and analysis, and an inference   *)
(* collaborator.  Every handler is cut at its collaborator calls, so that  *)
(* concurrent requests interleave between calls, as they do on the store.  *)
(***************************************************************************)
EXTENDS Integers, Sequences, FiniteSets, TLC

\* ---------------------------------------------------------------- bounds
\* Number of requests of one behaviour.
MaxReq == 2
\* Number of requests in flight at one time.
MaxInFlight == 2

\* ------------------------------------------------------------ vocabulary
Slot == 1..MaxInFlight
Users == {"u1", "u2"}
\* A JSON key that is not in the request body.
Absent == "<absent>"
\* Python's None in a response body / SQL NULL in a column.
None == 0
NoText == "<none>"
EditTexts == {"edit A", "edit B"}
ModelText == "model output"
DefaultPrompt ==
  "Describe the contents of this image in detail. Be specific about objects, people, colors, and activities you see."
\* Path parameters the callers try: ids of rows that exist and of rows that do not.
IdArgs == 1..2
\* str(e) of the exceptions the collaborators raise.
DecodeErr == "list index out of range"
InferErr == "gemini error"
StoreErr == "store error"
KeyErr == "KeyError"
\* What one call on the store does: the row operation takes effect and the
\* rows come back; it takes no effect and an empty list comes back; it raises.
StoreOutcome == {"ok", "nodata", "raise"}
InferOutcome == {"ok", "raise"}
\* The environments a deployment runs in: os.getenv of the three settings.
Placeholder == "your_supabase_url_here"
Envs ==
  { [SUPABASE_URL |-> "https://x.supabase.co", SUPABASE_ANON_KEY |-> "anon", GEMINI_API_KEY |-> "key"],
    [SUPABASE_URL |-> Placeholder, SUPABASE_ANON_KEY |-> "anon", GEMINI_API_KEY |-> "key"],
    [SUPABASE_URL |-> "https://x.supabase.co", SUPABASE_ANON_KEY |-> Absent, GEMINI_API_KEY |-> "key"],
    [SUPABASE_URL |-> "https://x.supabase.co", SUPABASE_ANON_KEY |-> "anon", GEMINI_API_KEY |-> Absent] }

VARIABLES
  env,          \* the environment: SUPABASE_URL, SUPABASE_ANON_KEY, GEMINI_API_KEY
  images,       \* table images: row id = index
  analysis,     \* table analysis: row id = index
  req,          \* the requests in flight: handler, inputs, locals, position
  obs,          \* per request in flight, what it did to its collaborators (observation only)
  hist,         \* per analysis row, the number of writes to it and the last text written (observation only)
  resp,         \* the response sent last, with its request and what that did (observation only)
  started       \* number of requests received so far

vars == <<env, images, analysis, req, obs, hist, resp, started>>

\* ------------------------------------------------------ request payloads
Has(data, k) == data[k] # Absent

NoPayload == [image |-> Absent, user_id |-> Absent, custom_prompt |-> Absent,
              analysis_text |-> Absent]

\* The bodies the callers send. No field of a body decides what the handler
\* does with another, so each value of each field appears, not each combination.
UploadPayloads ==
  { [NoPayload EXCEPT !.image = "data:image/png;base64,AAAA", !.user_id = "u1"],
    [NoPayload EXCEPT !.image = "data:image/png;base64,AAAA", !.user_id = "u2",
                      !.custom_prompt = "What is this?"],
    [NoPayload EXCEPT !.image = "not-a-data-url", !.user_id = "u1"],
    [NoPayload EXCEPT !.user_id = "u1"],
    [NoPayload EXCEPT !.image = "data:image/png;base64,AAAA"],
    NoPayload }

EditPayloads ==
  { [NoPayload EXCEPT !.user_id = u, !.analysis_text = t] : u \in Users, t \in EditTexts }
  \cup { [NoPayload EXCEPT !.user_id = "u1"],
         [NoPayload EXCEPT !.analysis_text = "edit A"] }

\* 'image' not in data or 'user_id' not in data
MissingUploadFieldsImageOnly(data) == ~Has(data, "image")
MissingUploadFields(data) == ~Has(data, "image") \/ ~Has(data, "user_id")

\* 'analysis_text' not in data or 'user_id' not in data
MissingEditFieldsTextOnly(data) == ~Has(data, "analysis_text")
MissingEditFields(data) == ~Has(data, "analysis_text") \/ ~Has(data, "user_id")

\* data.get('custom_prompt', <default>)
CustomPrompt(data) ==
  IF Has(data, "custom_prompt") THEN data.custom_prompt ELSE DefaultPrompt

\* base64.b64decode(image_data.split(',')[1]) and Image.open: a payload
\* without a comma has no element [1]
Decodes(image_data) == image_data = "data:image/png;base64,AAAA"

\* -------------------------------------------------------- configuration
\* app.py's module-level client: created (TRUE) or None (FALSE)
supabase ==
  /\ env.SUPABASE_URL # Absent
  /\ env.SUPABASE_ANON_KEY # Absent
  /\ env.SUPABASE_URL # Placeholder

\* app.py raises at import without the inference key: no Flask request is served
FlaskUp == env.GEMINI_API_KEY # Absent

\* if supabase_url and supabase_key (upload-image.py)
LambdaSupabase == env.SUPABASE_URL # Absent /\ env.SUPABASE_ANON_KEY # Absent

\* if not gemini_api_key (upload-image.py)
LambdaKey == env.GEMINI_API_KEY # Absent

\* The placeholder image id of a handler without a store client.
MockImageIdWrong == 1 + 1
MockImageId == 1

\* ------------------------------------------------------------ store rows
ImageInsert(user_id, image_data) ==
  [user_id |-> user_id, image_data |-> image_data, status |-> "processing",
   error_message |-> NoText]

AnalysisInsert(image_id, user_id, analysis_text, custom_prompt) ==
  [image_id |-> image_id, user_id |-> user_id, analysis_text |-> analysis_text,
   custom_prompt |-> custom_prompt, status |-> "completed", is_edited |-> FALSE]

\* .update({'status': 'completed'}) applied to a row
CompletedUpdate(row) == [row EXCEPT !.status = "completed"]

\* .update({'status': 'failed', 'error_message': str(ai_error)}) applied to a row
FailedUpdateNoMessage(row, err) == [row EXCEPT !.status = "failed"]
FailedUpdateKeepsStatus(row, err) == [row EXCEPT !.error_message = err]
FailedUpdate(row, err) == [row EXCEPT !.status = "failed", !.error_message = err]

\* .update({'analysis_text': analysis_text, 'is_edited': True}) applied to a row
EditUpdateTextOnly(row, text) == [row EXCEPT !.analysis_text = text]
EditUpdate(row, text) == [row EXCEPT !.analysis_text = text, !.is_edited = TRUE]

\* result.data[0]['user_id'] != user_id
NotOwnerNever(stored_user, user_id) == FALSE
NotOwner(stored_user, user_id) == stored_user # user_id

\* .eq('id', id) on a table: the ids of the matching rows
ById(table, id) == {i \in DOMAIN table : i = id}

\* select('*').eq('image_id', image_id): the matching rows, in id order
RECURSIVE Filter(_, _, _)
Filter(table, i, image_id) ==
  IF i > Len(table) THEN <<>>
  ELSE IF table[i].image_id = image_id
       THEN <<[id |-> i, row |-> table[i]]>> \o Filter(table, i + 1, image_id)
       ELSE Filter(table, i + 1, image_id)
SelectByImage(image_id) == Filter(analysis, 1, image_id)

\* select('*, analysis(*)').eq('user_id', u).order('created_at', desc=True):
\* ids are handed out in creation order, so newest first is highest id first
RECURSIVE UserImages(_, _)
UserImages(i, user_id) ==
  IF i < 1 THEN <<>>
  ELSE IF images[i].user_id = user_id
       THEN <<[id |-> i, row |-> images[i], analysis |-> SelectByImage(i)]>>
              \o UserImages(i - 1, user_id)
       ELSE UserImages(i - 1, user_id)

\* ------------------------------------------------------------- requests
Idle == [kind |-> "idle", pc |-> "idle", data |-> NoPayload, arg |-> None,
         supabase |-> FALSE, image_id |-> None, analysis_text |-> NoText,
         analysis_record |-> None, ai_error |-> NoText]

NoObs == [store_calls |-> 0, infer_calls |-> 0, image_row |-> None,
          analysis_row |-> None, infer |-> "none", failed_write |-> "none",
          found |-> None, wrote |-> 0, seen |-> 0]

NoResp == [req |-> Idle, obs |-> NoObs, code |-> 0, body |-> <<>>]

\* req and obs list the requests in flight, oldest first. A request is received
\* while fewer than MaxInFlight are in flight, and joins at the end.
InFlight(r) == r \in DOMAIN req

CanBegin(r) ==
  /\ started < MaxReq
  /\ r = Len(req) + 1

Without(seq, r) == [i \in 1..(Len(seq) - 1) |-> IF i < r THEN seq[i] ELSE seq[i + 1]]

\* The handler goes on to its next collaborator call.
Stay(r, rec, o) ==
  /\ req' = IF InFlight(r) THEN [req EXCEPT ![r] = rec] ELSE Append(req, rec)
  /\ obs' = IF InFlight(r) THEN [obs EXCEPT ![r] = o] ELSE Append(obs, o)
  /\ UNCHANGED resp

\* The handler returns its response; its locals are gone.
Send(r, rec, o, code, body) ==
  /\ req' = IF InFlight(r) THEN Without(req, r) ELSE req
  /\ obs' = IF InFlight(r) THEN Without(obs, r) ELSE obs
  /\ resp' = [req |-> rec, obs |-> o, code |-> code, body |-> body]

Called(o) == [o EXCEPT !.store_calls = @ + 1]

\* The store when the deployment starts: empty, or holding the rows of one
\* earlier upload that completed.
EmptyStore == [images |-> <<>>, analysis |-> <<>>, hist |-> <<>>]
UsedStore ==
  [images |-> <<CompletedUpdate(ImageInsert("u1", "data:image/png;base64,AAAA"))>>,
   analysis |-> <<AnalysisInsert(1, "u1", ModelText, DefaultPrompt)>>,
   hist |-> <<[n |-> 1, last |-> ModelText]>>]

Init ==
  /\ env \in Envs
  /\ \E st \in {EmptyStore, UsedStore} :
       /\ images = st.images
       /\ analysis = st.analysis
       /\ hist = st.hist
  /\ req = <<>>
  /\ obs = <<>>
  /\ resp = NoResp
  /\ started = 0

\* ---------------------------------------------------------------- upload
Uploads == {"upload_image", "handler"}

\* except Exception as ai_error: the request goes on to mark its image failed
\* (store client present) or answers 500 at once.
Failing(r, rec0, o, err) ==
  LET rec == [rec0 EXCEPT !.ai_error = err] IN
  IF rec.supabase THEN Stay(r, [rec EXCEPT !.pc = "mark_failed"], o)
  ELSE Send(r, rec, o, 500, [error |-> <<"AI analysis failed: ", err>>])

\* The 200 response of an upload.
Completed(r, rec, o) ==
  Send(r, rec, o, 200,
       [image_id |-> rec.image_id, analysis |-> rec.analysis_text,
        analysis_id |-> IF rec.supabase /\ rec.analysis_record # None
                        THEN rec.analysis_record ELSE None,
        status |-> "completed"])

\* Decode the payload and call the inference collaborator, once. Neither
\* touches the store, so the step is taken together with the one before it.
Process(r, rec, o, io) ==
  IF ~Decodes(rec.data.image) THEN
    /\ io = "ok"
    /\ Failing(r, rec, [o EXCEPT !.infer = "decode_error"], DecodeErr)
  ELSE
    LET ob == [o EXCEPT !.infer_calls = @ + 1,
                        !.infer = IF io = "ok" THEN "ok" ELSE "raised"]
        got == [rec EXCEPT !.analysis_text = ModelText]
    IN
    IF io = "raise" THEN Failing(r, rec, ob, InferErr)
    ELSE IF rec.supabase THEN Stay(r, [got EXCEPT !.pc = "insert_analysis"], ob)
    ELSE Completed(r, got, ob)

\* Validation, the images insert, (Netlify only) the inference key check, and
\* the inference. sb: the handler has a store client; key: the inference key
\* is configured.
Begin(r, kind, data, o, io, sb, key) ==
  /\ CanBegin(r)
  /\ started' = started + 1
  /\ LET rec == [Idle EXCEPT !.kind = kind, !.data = data, !.supabase = sb]
         id == Len(images) + 1
         stored == [rec EXCEPT !.image_id = id]
         mock == [rec EXCEPT !.image_id = MockImageId]
         nokey == [error |-> <<"GEMINI_API_KEY not configured">>]
     IN
     IF MissingUploadFields(data) THEN
       /\ o = "ok" /\ io = "ok"
       /\ Send(r, rec, NoObs, 400, [error |-> <<"Missing image or user_id">>])
       /\ UNCHANGED images
     ELSE IF ~Has(data, "image") \/ ~Has(data, "user_id") THEN
       \* data['image'] / data['user_id'] on a missing key: the outer except
       /\ o = "ok" /\ io = "ok"
       /\ Send(r, rec, NoObs, 500, [error |-> <<KeyErr>>])
       /\ UNCHANGED images
     ELSE IF sb THEN
       CASE o = "ok" ->
              /\ images' = Append(images, ImageInsert(data.user_id, data.image))
              /\ LET ob == [Called(NoObs) EXCEPT !.image_row = id] IN
                 IF key THEN Process(r, stored, ob, io)
                 ELSE io = "ok" /\ Send(r, stored, ob, 500, nokey)
         [] o = "nodata" ->
              /\ io = "ok"
              /\ Send(r, rec, Called(NoObs), 500, [error |-> <<"Failed to store image">>])
              /\ UNCHANGED images
         [] o = "raise" ->
              /\ io = "ok"
              /\ Send(r, rec, Called(NoObs), 500, [error |-> <<StoreErr>>])
              /\ UNCHANGED images
     ELSE
       /\ o = "ok"
       /\ IF key THEN Process(r, mock, NoObs, io)
          ELSE io = "ok" /\ Send(r, mock, NoObs, 500, nokey)
       /\ UNCHANGED images
  /\ UNCHANGED <<env, analysis, hist>>

\* POST /upload-image of the Flask application. The inference key is checked
\* when the module is loaded, so a running application has one.
upload_image(r) ==
  \E data \in UploadPayloads, o \in StoreOutcome, io \in InferOutcome :
    /\ FlaskUp
    /\ Begin(r, "upload_image", data, o, io, supabase, TRUE)

\* The Netlify function: client and key come from the environment per call.
handler(r) ==
  \E data \in UploadPayloads, o \in StoreOutcome, io \in InferOutcome :
    Begin(r, "handler", data, o, io, LambdaSupabase, LambdaKey)

\* supabase.table('analysis').insert({...}).execute()
InsertAnalysis(r) ==
  /\ InFlight(r)
  /\ req[r].pc = "insert_analysis"
  /\ \E o \in StoreOutcome :
       LET id == Len(analysis) + 1
           rec == req[r]
       IN
       CASE o = "ok" ->
              /\ analysis' = Append(analysis,
                   AnalysisInsert(rec.image_id, rec.data.user_id, rec.analysis_text,
                                  CustomPrompt(rec.data)))
              /\ hist' = Append(hist, [n |-> 1, last |-> rec.analysis_text])
              /\ Stay(r, [rec EXCEPT !.pc = "mark_completed", !.analysis_record = id],
                      [Called(obs[r]) EXCEPT !.analysis_row = id])
         [] o = "nodata" ->
              /\ Stay(r, [rec EXCEPT !.pc = "mark_completed"], Called(obs[r]))
              /\ UNCHANGED <<analysis, hist>>
         [] o = "raise" ->
              /\ Failing(r, req[r], Called(obs[r]), StoreErr)
              /\ UNCHANGED <<analysis, hist>>
  /\ UNCHANGED <<env, images, started>>

\* supabase.table('images').update({'status': 'completed'}).eq('id', image_id)
MarkCompleted(r) ==
  /\ InFlight(r)
  /\ req[r].pc = "mark_completed"
  /\ \E o \in StoreOutcome :
       CASE o = "ok" ->
              /\ images' = [i \in DOMAIN images |->
                   IF i \in ById(images, req[r].image_id)
                   THEN CompletedUpdate(images[i]) ELSE images[i]]
              /\ Completed(r, req[r], Called(obs[r]))
         [] o = "nodata" ->
              /\ Completed(r, req[r], Called(obs[r]))
              /\ UNCHANGED images
         [] o = "raise" ->
              /\ Failing(r, req[r], Called(obs[r]), StoreErr)
              /\ UNCHANGED images
  /\ UNCHANGED <<env, analysis, hist, started>>

\* except Exception as ai_error: update the image to failed, answer 500
MarkFailed(r) ==
  /\ InFlight(r)
  /\ req[r].pc = "mark_failed"
  /\ \E o \in StoreOutcome :
       LET ob == [Called(obs[r]) EXCEPT !.failed_write = o]
           failed == [error |-> <<"AI analysis failed: ", req[r].ai_error>>]
       IN
       CASE o = "ok" ->
              /\ images' = [i \in DOMAIN images |->
                   IF i \in ById(images, req[r].image_id)
                   THEN FailedUpdate(images[i], req[r].ai_error) ELSE images[i]]
              /\ Send(r, req[r], ob, 500, failed)
         [] o = "nodata" ->
              /\ Send(r, req[r], ob, 500, failed)
              /\ UNCHANGED images
         [] o = "raise" ->
              /\ Send(r, req[r], ob, 500, [error |-> <<StoreErr>>])
              /\ UNCHANGED images
  /\ UNCHANGED <<env, analysis, hist, started>>

\* ---------------------------------------------------------------- reads
\* GET /analysis/<image_id>
get_analysis(r) ==
  /\ FlaskUp
  /\ CanBegin(r)
  /\ started' = started + 1
  /\ \E image_id \in IdArgs, o \in {"ok", "raise"} :
       LET rec == [Idle EXCEPT !.kind = "get_analysis", !.arg = image_id, !.supabase = supabase]
           result == SelectByImage(image_id)
       IN
       IF ~supabase THEN
         /\ o = "ok"
         /\ Send(r, rec, NoObs, 500, [error |-> <<"Supabase not configured">>])
       ELSE IF o = "raise" THEN
         Send(r, rec, Called(NoObs), 500, [error |-> <<StoreErr>>])
       ELSE IF result = <<>> THEN
         Send(r, rec, Called(NoObs), 404, [error |-> <<"Analysis not found">>])
       ELSE
         Send(r, rec, [Called(NoObs) EXCEPT !.found = result[1].id,
                                            !.seen = hist[result[1].id].n],
              200, result[1])
  /\ UNCHANGED <<env, images, analysis, hist>>

\* GET /user-images/<user_id>
get_user_images(r) ==
  /\ FlaskUp
  /\ CanBegin(r)
  /\ started' = started + 1
  /\ \E user_id \in Users, o \in {"ok", "raise"} :
       LET rec == [Idle EXCEPT !.kind = "get_user_images",
                               !.data = [NoPayload EXCEPT !.user_id = user_id],
                               !.supabase = supabase]
       IN
       IF ~supabase THEN
         /\ o = "ok"
         /\ Send(r, rec, NoObs, 500, [error |-> <<"Supabase not configured">>])
       ELSE IF o = "raise" THEN
         Send(r, rec, Called(NoObs), 500, [error |-> <<StoreErr>>])
       ELSE
         Send(r, rec, Called(NoObs), 200, UserImages(Len(images), user_id))
  /\ UNCHANGED <<env, images, analysis, hist>>

\* ----------------------------------------------------------------- edit
\* PUT /update-analysis/<analysis_id>: up to and including the ownership check
update_analysis(r) ==
  /\ FlaskUp
  /\ CanBegin(r)
  /\ started' = started + 1
  /\ \E analysis_id \in IdArgs, data \in EditPayloads, o \in {"ok", "raise"} :
       LET rec == [Idle EXCEPT !.kind = "update_analysis", !.arg = analysis_id,
                               !.data = data, !.supabase = supabase]
           result == ById(analysis, analysis_id)
           looked == [Called(NoObs) EXCEPT !.found = analysis_id]
       IN
       IF ~supabase THEN
         /\ o = "ok"
         /\ Send(r, rec, NoObs, 500, [error |-> <<"Supabase not configured">>])
       ELSE IF MissingEditFields(data) THEN
         /\ o = "ok"
         /\ Send(r, rec, NoObs, 400, [error |-> <<"Missing analysis_text or user_id">>])
       ELSE IF ~Has(data, "analysis_text") \/ ~Has(data, "user_id") THEN
         /\ o = "ok"
         /\ Send(r, rec, NoObs, 500, [error |-> <<KeyErr>>])
       ELSE IF o = "raise" THEN
         Send(r, rec, Called(NoObs), 500, [error |-> <<StoreErr>>])
       ELSE IF result = {} THEN
         Send(r, rec, Called(NoObs), 404, [error |-> <<"Analysis not found">>])
       ELSE IF NotOwner(analysis[analysis_id].user_id, data.user_id) THEN
         Send(r, rec, looked, 403, [error |-> <<"Unauthorized">>])
       ELSE
         Stay(r, [rec EXCEPT !.pc = "update"], looked)
  /\ UNCHANGED <<env, images, analysis, hist>>

\* supabase.table('analysis').update({...}).eq('id', analysis_id).execute()
UpdateAnalysisWrite(r) ==
  /\ InFlight(r)
  /\ req[r].pc = "update"
  /\ \E o \in StoreOutcome :
       LET aid == req[r].arg
           text == req[r].data.analysis_text
       IN
       CASE o = "ok" ->
              /\ analysis' = [i \in DOMAIN analysis |->
                   IF i \in ById(analysis, aid) THEN EditUpdate(analysis[i], text)
                   ELSE analysis[i]]
              /\ hist' = [hist EXCEPT ![aid] = [n |-> @.n + 1, last |-> text]]
              /\ Send(r, req[r], [Called(obs[r]) EXCEPT !.wrote = hist[aid].n + 1], 200,
                      [message |-> "Analysis updated successfully", analysis_id |-> aid])
         [] o = "nodata" ->
              /\ Send(r, req[r], Called(obs[r]), 500, [error |-> <<"Failed to update analysis">>])
              /\ UNCHANGED <<analysis, hist>>
         [] o = "raise" ->
              /\ Send(r, req[r], Called(obs[r]), 500, [error |-> <<StoreErr>>])
              /\ UNCHANGED <<analysis, hist>>
  /\ UNCHANGED <<env, images, started>>

\* ------------------------------------------------------- specification
Next ==
  \E r \in Slot :
    \/ upload_image(r)
    \/ handler(r)
    \/ InsertAnalysis(r)
    \/ MarkCompleted(r)
    \/ MarkFailed(r)
    \/ get_analysis(r)
    \/ get_user_images(r)
    \/ update_analysis(r)
    \/ UpdateAnalysisWrite(r)

Spec == Init /\ [][Next]_vars


\* ================================================================ claims
Sent == resp.code # 0
Kind == resp.req.kind
LacksUploadField == resp.req.data.image = Absent \/ resp.req.data.user_id = Absent
LacksEditField == resp.req.data.analysis_text = Absent \/ resp.req.data.user_id = Absent
Terminal == {"completed", "failed"}
Referenced(i) == \E a \in DOMAIN analysis : analysis[a].image_id = i

\* C1: an upload request that inserted an Image row leaves that row
\* 'completed' or 'failed' when it responds. (Stated as claimed; the Netlify
\* handler answers 500 for a missing inference key after the insert.)
C1_RowTerminalAtResponse ==
  (Kind \in Uploads /\ resp.obs.image_row # None)
    => images[resp.obs.image_row].status \in Terminal

\* C2, as claimed: when the inference call raises, the response is 500, the
\* call was made once, the request inserted no Analysis row, and with a store
\* client the request's Image row is 'failed' with the error text.
C2_FailedRowAlways ==
  (Kind \in Uploads /\ resp.obs.infer = "raised") =>
    /\ resp.code = 500
    /\ resp.obs.infer_calls = 1
    /\ resp.obs.analysis_row = None
    /\ resp.req.supabase =>
         /\ ~Referenced(resp.obs.image_row)
         /\ images[resp.obs.image_row].status = "failed"
         /\ images[resp.obs.image_row].error_message = InferErr

\* C2, amended: as above, but the Image row is 'failed' with the error text
\* exactly when the store applied the status update; when that update raised
\* or returned no row, the row is still 'processing' without error_message.
C2_FailedRowWhenUpdateApplied ==
  (Kind \in Uploads /\ resp.obs.infer = "raised") =>
    /\ resp.code = 500
    /\ resp.obs.infer_calls = 1
    /\ resp.obs.analysis_row = None
    /\ resp.req.supabase =>
         /\ ~Referenced(resp.obs.image_row)
         /\ resp.req.ai_error = InferErr
         /\ IF resp.obs.failed_write = "ok"
            THEN /\ images[resp.obs.image_row].status = "failed"
                 /\ images[resp.obs.image_row].error_message = InferErr
            ELSE /\ images[resp.obs.image_row].status = "processing"
                 /\ images[resp.obs.image_row].error_message = NoText

C2_Witness ==
  /\ Kind \in Uploads
  /\ resp.obs.infer = "raised"
  /\ resp.req.supabase
  /\ resp.obs.failed_write = "ok"
  /\ images[resp.obs.image_row].status = "failed"

\* C3: an upload whose body lacks 'image' or 'user_id' is answered 400 and
\* calls neither the store nor the inference collaborator.
C3_MissingFieldNoCalls ==
  (Kind \in Uploads /\ LacksUploadField) =>
    /\ resp.code = 400
    /\ resp.obs.store_calls = 0
    /\ resp.obs.infer_calls = 0
    /\ resp.obs.image_row = None
    /\ resp.obs.analysis_row = None

C3_Witness ==
  /\ Kind = "handler"
  /\ resp.req.data.image # Absent
  /\ resp.req.data.user_id = Absent
  /\ resp.code = 400
  /\ LambdaSupabase

\* The answer to an edit by someone other than the row's user.
C4_NonOwnerAnswered ==
  (Kind = "update_analysis" /\ resp.req.arg \in DOMAIN analysis
     /\ analysis[resp.req.arg].user_id # resp.req.data.user_id) =>
    /\ resp.obs.wrote = 0
    /\ resp.code # 200
    /\ resp.obs.found # None => resp.code = 403

\* A step that changes an Analysis row.
C4_WriteByOwner ==
  \A a \in DOMAIN analysis :
    analysis'[a] # analysis[a] =>
      \E r \in DOMAIN req :
        /\ req[r].pc = "update"
        /\ req[r].arg = a
        /\ req[r].data.user_id = analysis[a].user_id
        /\ analysis'[a].user_id = analysis[a].user_id
        /\ resp'.req = req[r]
        /\ resp'.code = 200

C5_EditedIffWritten ==
  /\ \A a \in DOMAIN analysis :
       /\ analysis[a].is_edited = (hist[a].n > 1)
       /\ analysis[a].analysis_text = hist[a].last
       /\ hist[a].n = 1 => analysis[a].analysis_text = ModelText
  /\ (Kind = "update_analysis" /\ resp.code = 200) =>
       /\ resp.obs.wrote > 1
       /\ resp.obs.wrote = hist[resp.req.arg].n =>
            /\ analysis[resp.req.arg].is_edited
            /\ analysis[resp.req.arg].analysis_text = resp.req.data.analysis_text
  /\ (Kind = "get_analysis" /\ resp.code = 200) =>
       /\ resp.body.row.image_id = resp.req.arg
       /\ resp.obs.seen = hist[resp.body.id].n =>
            /\ resp.body.row = analysis[resp.body.id]
            /\ resp.body.row.is_edited = (resp.obs.seen > 1)

C5_Witness ==
  /\ Kind = "get_analysis"
  /\ resp.code = 200
  /\ resp.body.row.is_edited
  /\ resp.body.row.analysis_text \in EditTexts
  /\ hist[resp.body.id].n = resp.obs.seen

\* C6, as claimed: an edit whose body lacks 'analysis_text' or 'user_id' is
\* answered 400, with or without a store client, and writes nothing.
C6_MissingFieldAlways400 ==
  (Kind = "update_analysis" /\ LacksEditField) =>
    /\ resp.code = 400
    /\ resp.obs.store_calls = 0

\* C6, amended: such an edit is answered 400 when the application has a store
\* client and 500 (store not configured) when it has none; it never calls the
\* store.
C6_MissingField400WhenConfigured ==
  (Kind = "update_analysis" /\ LacksEditField) =>
    /\ resp.code = IF supabase THEN 400 ELSE 500
    /\ ~supabase => resp.body = [error |-> <<"Supabase not configured">>]
    /\ resp.obs.store_calls = 0
    /\ resp.obs.wrote = 0

C6_Witness ==
  /\ Kind = "update_analysis"
  /\ LacksEditField
  /\ supabase
  /\ resp.code = 400
  /\ Len(analysis) > 0

\* C7: an upload whose image decodes and whose inference call succeeds is
\* answered 200 with status 'completed' and the model's text, whatever the
\* two store writes after it do, and the Analysis row it inserted stays.
\* (Stated as claimed; a write that raises is answered 500.)
C7_SuccessAnswered200 ==
  (Kind \in Uploads /\ resp.obs.infer = "ok") =>
    /\ resp.code = 200
    /\ resp.body.status = "completed"
    /\ resp.body.analysis = ModelText
    /\ resp.obs.analysis_row # None =>
         /\ resp.obs.analysis_row \in DOMAIN analysis
         /\ analysis[resp.obs.analysis_row].image_id = resp.req.image_id

\* C8: a handler without a store client never calls the store; its upload
\* runs with image id 1 and, when inference succeeds, answers 200 with
\* image_id 1, analysis_id null and status 'completed'; fetch, list and edit
\* answer 500; and with no client at all the store never changes.
C8_NoClientNoStore ==
  /\ (Sent /\ ~resp.req.supabase) =>
       /\ resp.obs.store_calls = 0
       /\ resp.obs.image_row = None
       /\ resp.obs.analysis_row = None
       /\ resp.obs.wrote = 0
       /\ (Kind \in Uploads /\ ~LacksUploadField) => resp.req.image_id = 1
       /\ (Kind \in Uploads /\ resp.obs.infer = "ok") =>
            /\ resp.code = 200
            /\ resp.body = [image_id |-> 1, analysis |-> ModelText,
                            analysis_id |-> 0, status |-> "completed"]
       /\ Kind \in {"get_analysis", "get_user_images", "update_analysis"} =>
            /\ resp.code = 500
            /\ resp.body = [error |-> <<"Supabase not configured">>]
  /\ Sent => resp.req.supabase = (IF Kind = "handler" THEN LambdaSupabase ELSE supabase)
  /\ (~supabase /\ ~LambdaSupabase) =>
       \E st \in {EmptyStore, UsedStore} : images = st.images /\ analysis = st.analysis

C8_Witness ==
  /\ Kind = "upload_image"
  /\ ~supabase
  /\ resp.obs.infer = "ok"
  /\ resp.code = 200
  /\ resp.body.analysis_id = None
  /\ Len(images) > 0

\* The statuses and error messages of the rows of one state.
C9_StatusSet ==
  \A i \in DOMAIN images :
    /\ images[i].status \in {"processing", "completed", "failed"}
    /\ images[i].error_message # NoText => images[i].status = "failed"

\* What one step does to the rows.
C9_StatusStep ==
  \A i \in DOMAIN images :
    /\ i \in DOMAIN images'
    /\ images'[i].status # images[i].status =>
         /\ images[i].status = "processing"
         /\ images'[i].status \in Terminal

\* C9: an Image row's status is 'processing', 'completed' or 'failed'; it
\* changes only from 'processing' to 'completed' or to 'failed', so at most
\* once; rows are never removed; error_message is set only on 'failed' rows.
C9_StatusLifecycle == []C9_StatusSet /\ [][C9_StatusStep]_vars

C9_Witness ==
  \E i, j \in DOMAIN images :
    /\ images[i].status = "failed"
    /\ images[i].error_message = StoreErr
    /\ images[j].status = "completed"
    /\ i > 1 /\ j > 1

\* C10: an Image row with status 'completed' is referenced by an Analysis
\* row. (Stated as claimed; the upload marks the image completed after an
\* Analysis insert that returned no row.)
C10_CompletedHasAnalysis ==
  \A i \in DOMAIN images :
    images[i].status = "completed" => Referenced(i)
====
